---------------------------- MODULE Spec2Model ----------------------------
(***************************************************************************)
(* A model of the opa-scaler control plane.                                *)
(*                                                                         *)
(*   SpecDep  the Dependency controller (DependencyReconciler.Reconcile    *)
(*            and addPolicyToEngine) working on the Engines' Spec.policies *)
(*            of one namespace, together with the users of the namespace.  *)
(*                                                                         *)
(*            SpecDepOnly, SpecDepPolicies and SpecDepFair are SpecDep     *)
(*            with fewer users; SpecDepCached is the controller reading    *)
(*            each Dependency through its client's (watch-fed) cache.      *)
(*                                                                         *)
(*   SpecEng  the Engine controller (OpaEngineReconciler.Reconcile) working  *)
(*            on one Engine, its child service and workload and the policy *)
(*            runtime behind them, together with the users and the         *)
(*            cluster.  SpecEngFair is SpecEng with a runtime and a        *)
(*            cluster API that do not fail, and reconciles that keep       *)
(*            coming.                                                      *)
(*                                                                         *)
(*   SpecClient  the functions of the policy client (MergePolicies,        *)
(*            PushPolicies, DeletePolicies), each called once on           *)
(*            arguments drawn from bounded sets.                           *)
(*                                                                         *)
(* Engine names: the Dependency controller only ever names Engines         *)
(* "default", "default-part2", "default-part2-part2", ...; Engine n of the *)
(* model is "default" followed by n times "-part2".  The list of Engines   *)
(* of the namespace is ordered by name, which is the order of n.           *)
(* Policy names are pairs: <<"p", i>> is named by a Dependency,            *)
(* <<"s", i>> by a user who seeds an Engine, <<"u", 0>> by a user edit.    *)
(***************************************************************************)
EXTENDS Integers, Sequences, FiniteSets, TLC

\* ------------------------------------------------------------------ bounds
NumDeps == 3
NumPolicies == 2
MaxPart == 2
MaxUserOps == 2
MaxReplicas == 2
MaxLen == 3
MaxEngineNames == 2

\* ------------------------------------------------ constants of the program
\* addPolicyToEngine: "if len(updatedPolicies) > 7"
MaxPolicies == 7
\* addPolicyToEngine: "numToMove := 5"
NumToMove == 5
\* OpaEngineSpec.Replicas: "+kubebuilder:default:value=1"
DefaultReplicas == 1

Deps == 1..NumDeps
EngineIds == 0..MaxPart
\* Spec.policyName of Dependency d: Dependencies d and d + NumPolicies name
\* the same Policy for different services.
DepPolicy(d) == <<"p", ((d - 1) % NumPolicies) + 1>>
DepPolicyNames == {DepPolicy(d) : d \in Deps}
\* The Spec.policies a user gives an Engine it creates.
\* Either names of the user's own, or the name of a Policy that a Dependency
\* names as well, followed by names of the user's own.
SeedList(k) == [i \in 1..k |-> <<"s", i>>]
SeedWithDepPolicy(k) == [i \in 1..k |-> IF i = 1 THEN <<"p", 1>> ELSE <<"s", i>>]
Seeds == {SeedWithDepPolicy(MaxPolicies - 1), SeedList(MaxPolicies)}
UserPolicy == <<"u", 0>>

VARIABLES
    policies,   \* the names of the Policy objects of the namespace
    engines,    \* engines[n]: the Engine object n: [exists, policies (Spec.policies)]
    deps,       \* deps[d]: Status of Dependency d: [conditions, deployed, engineName]
    pc,         \* pc[d]: where the reconcile of Dependency d stands: "idle" | "place"
    listed,     \* listed[d]: engines.Items as the reconcile of d listed them
    last,       \* what the last Dependency reconcile that returned did
    userOps,    \* number of user operations on Engines so far
    eng,        \* the Engine object the Engine controller reconciles
    svc,        \* whether its child service exists
    dpl,        \* its child workload: [exists, replicas (Spec), availableReplicas (Status)]
    loaded,     \* the policy names loaded in the runtime behind the service
    eret,       \* what the last Engine reconcile that returned did
    call,       \* a call of the policy client: its arguments and, once done, its results
    cache       \* cache[d]: the copy of Dependency d in the reconciler's informer cache

depVars == <<policies, engines, deps, pc, listed, last, userOps>>
engVars == <<eng, svc, dpl, loaded, eret>>
vars ==
    <<policies, engines, deps, pc, listed, last, userOps, eng, svc, dpl, loaded, eret, call,
      cache>>

\* ------------------------------------------------------------ pure helpers
Range(s) == {s[i] : i \in DOMAIN s}
Contains(s, x) == \E i \in DOMAIN s : s[i] = x
\* for _, p := range s { if keep[p] { out = append(out, p) } }
RECURSIVE FilterSeq(_, _)
FilterSeq(s, keep) ==
    IF s = <<>> THEN <<>>
    ELSE (IF Head(s) \in keep THEN <<Head(s)>> ELSE <<>>) \o FilterSeq(Tail(s), keep)
NoDuplicates(s) == \A i, j \in DOMAIN s : s[i] = s[j] => i = j

\* "%s-part2"
PartName(n) == n + 1

NoEngine == [exists |-> FALSE, policies |-> <<>>]
\* r.List(ctx, engines, client.InNamespace(...)): the Engines that exist, by name.
RECURSIVE ListFrom(_, _)
ListFrom(es, n) ==
    IF n > MaxPart THEN <<>>
    ELSE (IF es[n].exists THEN <<[name |-> n, policies |-> es[n].policies]>> ELSE <<>>)
         \o ListFrom(es, n + 1)
ListEngines(es) == ListFrom(es, 0)

\* metav1.Condition, without message and lastTransitionTime
Cond(t, s, r) == [type |-> t, status |-> s, reason |-> r]
\* A SetStatusCondition that appends whatever the conditions are.
AppendCondition(conds, c) == Append(conds, c)
\* meta.SetStatusCondition: update the condition of the same type, else append
SetStatusCondition(conds, c) ==
    IF \E i \in DOMAIN conds : conds[i].type = c.type
    THEN [i \in DOMAIN conds |-> IF conds[i].type = c.type THEN c ELSE conds[i]]
    ELSE Append(conds, c)


\* --------------------------------------------- DependencyReconciler helpers
\* addCondition: re-read the Dependency, SetStatusCondition, Status().Update
addCondition(ds, d, c) ==
    [ds EXCEPT ![d].conditions = SetStatusCondition(@, c)]

\* depCR.Status.EngineName = append(depCR.Status.EngineName, name), on a re-read copy
appendEngineName(ds, d, n) ==
    [ds EXCEPT ![d].engineName = Append(@, n)]

\* A check of the placements that never finds the name.
CheckScheduledNeverFinds(names, es, p) ==
    IF \E i \in DOMAIN names : ~(names[i] \in EngineIds /\ es[names[i]].exists)
    THEN "error" ELSE "none"

\* Reconcile, "for _, engineName := range depCR.Status.EngineName": the names
\* are fetched in order; a Get that fails ends the reconcile with the error,
\* the first Engine whose Spec.policies holds the name ends it as deployed.
RECURSIVE CheckScheduled(_, _, _)
CheckScheduled(names, es, p) ==
    IF names = <<>> THEN "none"
    ELSE IF ~(Head(names) \in EngineIds /\ es[Head(names)].exists) THEN "error"
    ELSE IF Contains(es[Head(names)].policies, p) THEN "found"
    ELSE CheckScheduled(Tail(names), es, p)

\* A CreateOrUpdate of the Engine "default" whose mutate leaves Spec.policies empty.
CreateDefaultWithoutPolicy(es, p) ==
    [es EXCEPT ![0] = [exists |-> TRUE, policies |-> <<>>]]

\* A CreateOrUpdate whose mutate sets Spec.Policies = [policyName] whether
\* the Engine is new or not.
CreateOrOverwriteDefault(es, p) ==
    [es EXCEPT ![0] = [exists |-> TRUE, policies |-> <<p>>]]

\* controllerutil.CreateOrUpdate of the Engine "default": Get it; when it is not
\* there, mutate (Spec.Policies = [policyName]) and Create; when it is there,
\* mutate (append policyName) and Update.
CreateOrUpdateDefault(es, p) ==
    IF es[0].exists
    THEN [es EXCEPT ![0].policies = Append(@, p)]
    ELSE [es EXCEPT ![0] = [exists |-> TRUE, policies |-> <<p>>]]

\* addPolicyToEngine, the two halves of the split
\*   policiesToMove := updatedPolicies[len(updatedPolicies)-numToMove:]
\*   remainingPolicies := updatedPolicies[:len(updatedPolicies)-numToMove]
NumMoved(updated) == IF Len(updated) < NumToMove THEN Len(updated) ELSE NumToMove
PoliciesToMove(updated) ==
    SubSeq(updated, Len(updated) - NumMoved(updated) + 1, Len(updated))
RemainingPolicies(updated) ==
    SubSeq(updated, 1, Len(updated) - NumMoved(updated))

\* addPolicyToEngine(ctx, policyName, engine): engine is the listed copy.
\* Result: the Engines afterwards, whether an error is returned, and the
\* Engines written.
SplitNeeded(updated) == Len(updated) > MaxPolicies

AddSplitCreated(es, item, updated) ==
    \* Create(newEngine) succeeded; then Get the original and drop the moved names
    LET new == PartName(item.name)
        es1 == [es EXCEPT ![new] = [exists |-> TRUE, policies |-> PoliciesToMove(updated)]]
    IN  IF ~es[item.name].exists
        THEN [engines |-> es1, err |-> TRUE, written |-> {new}]
        ELSE [engines |-> [es1 EXCEPT ![item.name].policies =
                              FilterSeq(@, Range(es[item.name].policies)
                                           \ Range(PoliciesToMove(updated)))],
              err |-> FALSE, written |-> {new, item.name}]

\* An AlreadyExists branch that drops the names to move, as the branch after
\* a successful Create does, in place of keeping the names to keep.
AddSplitAlreadyExistsDroppingMoved(es, item, updated) ==
    IF ~es[item.name].exists
    THEN [engines |-> es, err |-> TRUE, written |-> {}]
    ELSE [engines |-> [es EXCEPT ![item.name].policies =
                          FilterSeq(@, Range(es[item.name].policies)
                                       \ Range(PoliciesToMove(updated)))],
          err |-> FALSE, written |-> {item.name}]

AddSplitAlreadyExists(es, item, updated) ==
    \* Create(newEngine) answered AlreadyExists; Get the original and keep of
    \* its current names those of remainingPolicies
    IF ~es[item.name].exists
    THEN [engines |-> es, err |-> TRUE, written |-> {}]
    ELSE [engines |-> [es EXCEPT ![item.name].policies =
                          FilterSeq(@, Range(RemainingPolicies(updated)))],
          err |-> FALSE, written |-> {item.name}]

AddNoSplit(es, item, updated) ==
    \* Get the original, engine.Spec.Policies = updatedPolicies, Update
    IF ~es[item.name].exists
    THEN [engines |-> es, err |-> TRUE, written |-> {}]
    ELSE [engines |-> [es EXCEPT ![item.name].policies = updated],
          err |-> FALSE, written |-> {item.name}]

addPolicyToEngine(es, p, item) ==
    LET updated == Append(item.policies, p)
    IN  IF SplitNeeded(updated)
        THEN IF es[PartName(item.name)].exists
             THEN AddSplitAlreadyExists(es, item, updated)
             ELSE AddSplitCreated(es, item, updated)
        ELSE AddNoSplit(es, item, updated)

Returned(d, path, err, written) ==
    [dep |-> d, path |-> path, err |-> err, written |-> written]
NoReconcile == Returned(0, "none", FALSE, {})

\* ------------------------------------------------ OpaEngineReconciler helpers
\* The Engine object: metadata (deletionTimestamp, finalizer), Spec.policies,
\* Status.policies, Status.conditions.
NoOpaEngine ==
    [exists |-> FALSE, deleting |-> FALSE, finalizer |-> FALSE,
     replicas |-> DefaultReplicas, policies |-> <<>>, status |-> <<>>, conditions |-> <<>>]
NoDeployment == [exists |-> FALSE, replicas |-> 0, availableReplicas |-> 0]
\* The Spec.policies a user gives the Engine: up to two different names.
EngineSpecs ==
    {<<>>} \cup {<<p>> : p \in DepPolicyNames}
           \cup {<<pq[1], pq[2]>> : pq \in {x \in DepPolicyNames \X DepPolicyNames : x[1] # x[2]}}

\* What a reconcile did: the path it returned on, whether it returned an
\* error, Status.policies as fetched, the names PUT and DELETEd with 200, and
\* the cluster objects it deleted.
EngineReturned(path, err, prev, put, del, deleted) ==
    [path |-> path, err |-> err, prev |-> prev, put |-> put, del |-> del,
     deleted |-> deleted]
NoEngineReconcile == EngineReturned("none", FALSE, <<>>, <<>>, <<>>, <<>>)

\* A MergePolicies that returns its two results in each other's place.
MergePoliciesSwapped(expected, actual) ==
    <<FilterSeq(actual, Range(actual) \ Range(expected)),
      FilterSeq(expected, Range(expected) \ Range(actual))>>
\* A MergePolicies that returns the differences last entry first.
Reverse(s) == [i \in 1..Len(s) |-> s[Len(s) + 1 - i]]
MergePoliciesReversed(expected, actual) ==
    <<Reverse(FilterSeq(expected, Range(expected) \ Range(actual))),
      Reverse(FilterSeq(actual, Range(actual) \ Range(expected)))>>

\* MergePolicies(expected, actual) (toBeAdded, toBeRemove)
MergePolicies(expected, actual) ==
    <<FilterSeq(expected, Range(expected) \ Range(actual)),
      FilterSeq(actual, Range(actual) \ Range(expected))>>

\* The orders in which "for name, policy := range policies" may visit the
\* keys of the map: every one.
Orders(S) == {o \in [1..Cardinality(S) -> S] : \A i, j \in DOMAIN o : o[i] = o[j] => i = j}

\* A PushPolicies that reports no name as added.
PushPoliciesReportingNothing(order, nOk) ==
    [added |-> <<>>, err |-> nOk < Len(order)]

\* PushPolicies: PUT the names in the order of the map iteration; the first
\* answer that is not 200 (after nOk good ones) ends it with the names added
\* so far and an error.
PushPolicies(order, nOk) ==
    [added |-> SubSeq(order, 1, nOk), err |-> nOk < Len(order)]

\* A DeletePolicies that goes on after a failure.
DeletePoliciesGoingOn(names, ld, nOk) ==
    [removed |-> FilterSeq(names, ld), loaded |-> ld \ Range(names),
     err |-> ~(Range(names) \subseteq ld)]

\* DeletePolicies: DELETE the names in order; the first answer that is not 200
\* ends it with the names removed so far and an error.  The runtime answers
\* 404 for a name it has not loaded; nOk good answers precede a failure of
\* the transport or the runtime.
RECURSIVE DeletePolicies(_, _, _)
DeletePolicies(names, ld, nOk) ==
    IF names = <<>> THEN [removed |-> <<>>, loaded |-> ld, err |-> FALSE]
    ELSE IF nOk = 0 \/ Head(names) \notin ld
         THEN [removed |-> <<>>, loaded |-> ld, err |-> TRUE]
         ELSE LET r == DeletePolicies(Tail(names), ld \ {Head(names)}, nOk - 1)
              IN  [removed |-> <<Head(names)>> \o r.removed, loaded |-> r.loaded, err |-> r.err]

\* A lookup of the policy code that never fails.
PolicyCodeNeverMissing(toBeAdded, pols) == FALSE
\* "for _, p := range toBeAdded { code, err := r.getPolicyCode(...)": the
\* Get of the Policy object of some name to add answers NotFound
PolicyCodeMissing(toBeAdded, pols) ==
    toBeAdded # <<>> /\ ~(Range(toBeAdded) \subseteq pols)

\* Reconcile, "If the deployment is available, process policies".  e is the
\* Engine as this reconcile fetched it, stale tells that the stored Engine has
\* been written since (a Status().Update of e answers Conflict).  Result: the
\* stored Status.policies, the runtime, and what is returned.
SyncPolicies(e, ld, pols, stale, order, nPutOk, nDelOk) ==
    LET toBeAdded   == MergePolicies(e.policies, e.status)[1]
        toBeRemoved == MergePolicies(e.policies, e.status)[2]
        push == PushPolicies(order, nPutOk)
        ld1  == ld \cup Range(push.added)
        \* engine.Status.Policies = append(engine.Status.Policies, added...)
        local1  == e.status \o push.added
        \* Status().Update; a Conflict is ignored
        stored1 == IF toBeAdded # <<>> /\ ~stale THEN local1 ELSE e.status
        del == DeletePolicies(toBeRemoved, ld1, nDelOk)
        out(st, l, path, err, put, dl) ==
            [status |-> st, loaded |-> l,
             ret |-> EngineReturned(path, err, e.status, put, dl, <<>>)]
    IN  IF PolicyCodeMissing(toBeAdded, pols)
        THEN out(e.status, ld, "policyMissing", TRUE, <<>>, <<>>)      \* getPolicyCode failed
        ELSE IF push.err
        THEN out(e.status, ld1, "pushError", TRUE, push.added, <<>>)
        ELSE IF toBeRemoved = <<>>
        THEN out(stored1, ld1, "synced", FALSE, push.added, <<>>)
        ELSE IF del.err
        THEN out(stored1, del.loaded, "deleteError", TRUE, push.added, del.removed)
        ELSE IF stale                                                  \* Status().Update: Conflict
        THEN out(stored1, del.loaded, "statusUpdateError", TRUE, push.added, del.removed)
        ELSE out(FilterSeq(local1, Range(local1) \ Range(del.removed)), del.loaded,
                 "synced", FALSE, push.added, del.removed)

\* The finalizer discipline without the check of the service's Delete.
FinalizeIgnoringService(dplExists, svcExists, fault) ==
    IF ~dplExists \/ fault = "deleteDeployment"
    THEN [deleted |-> <<>>, finalizerRemoved |-> FALSE, path |-> "deleteDeploymentError"]
    ELSE IF ~svcExists \/ fault = "deleteService"
    THEN [deleted |-> <<"deployment">>, finalizerRemoved |-> TRUE, path |-> "finalized"]
    ELSE [deleted |-> <<"deployment", "service">>, finalizerRemoved |-> TRUE, path |-> "finalized"]

\* Reconcile, "Object deleted, remove finalizer if present": Delete the
\* workload, Delete the service, remove the finalizer; the first call that
\* fails (the object is not there, or fault names the call) ends it.
Finalize(dplExists, svcExists, fault) ==
    IF ~dplExists \/ fault = "deleteDeployment"
    THEN [deleted |-> <<>>, finalizerRemoved |-> FALSE, path |-> "deleteDeploymentError"]
    ELSE IF ~svcExists \/ fault = "deleteService"
    THEN [deleted |-> <<"deployment">>, finalizerRemoved |-> FALSE, path |-> "deleteServiceError"]
    ELSE [deleted |-> <<"deployment", "service">>, finalizerRemoved |-> TRUE, path |-> "finalized"]

Faults ==
    {"none", "addCondition", "deleteDeployment", "deleteService", "createService",
     "createDeployment"}

\* -------------------------------------------------- calls of the policy client
\* A call: the function, its arguments (a, b: sequences of names, ld: the
\* names loaded in the runtime, n: the number of requests the runtime
\* answers with 200 before the transport or the runtime fails) and, once
\* done, its results.
Call(fn, a, b, ld, n) ==
    [fn |-> fn, a |-> a, b |-> b, ld |-> ld, n |-> n,
     done |-> FALSE, out1 |-> <<>>, out2 |-> <<>>, err |-> FALSE, ldOut |-> {}]
NoCall == Call("none", <<>>, <<>>, {}, 0)

\* ------------------------------------------------------------------- Init
InitDep ==
    /\ policies = {}
    /\ engines = [n \in EngineIds |-> NoEngine]
    /\ deps = [d \in Deps |-> [conditions |-> <<>>, deployed |-> FALSE, engineName |-> <<>>]]
    /\ pc = [d \in Deps |-> "idle"]
    /\ listed = [d \in Deps |-> <<>>]
    /\ last = NoReconcile
    /\ userOps = 0
    /\ eng = NoOpaEngine
    /\ svc = FALSE
    /\ dpl = NoDeployment
    /\ loaded = {}
    /\ eret = NoEngineReconcile
    /\ call = NoCall
    /\ cache = [d \in Deps |-> [conditions |-> <<>>, deployed |-> FALSE, engineName |-> <<>>]]

\* A short-circuit that never finds the Dependency deployed.
NeverAlreadyDeployed(cr) == FALSE
\* "if depCR.Status.Deployed": the Dependency is already deployed
AlreadyDeployed(cr) == cr.deployed

\* ------------------------------------------- DependencyReconciler.Reconcile
\* First half of Reconcile(d): from the Get of the Dependency to the List of
\* the Engines.  Every path but the last returns here.
DepReconcileFrom(d, cr, listFails) ==        \* cr: depCR as fetched
    /\ pc[d] = "idle"
    /\ UNCHANGED <<call, cache>>
    /\ LET p  == DepPolicy(d)
           ds0 == IF Len(cr.conditions) = 0
                  THEN addCondition(deps, d, Cond("Available", "Unknown", "DependencyNotReady"))
                  ELSE deps
           sched == CheckScheduled(cr.engineName, engines, p)
       IN
       \/ /\ AlreadyDeployed(cr)                       \* "Dependency already deployed"
          /\ ~listFails
          /\ deps' = ds0
          /\ last' = Returned(d, "alreadyDeployed", FALSE, {})
          /\ UNCHANGED <<pc, listed>>
       \/ /\ ~AlreadyDeployed(cr) /\ p \notin policies  \* Policy not found: requeue after 10s
          /\ ~listFails
          /\ deps' = addCondition(ds0, d, Cond("Available", "False", "PolicyNotFound"))
          /\ last' = Returned(d, "policyNotFound", FALSE, {})
          /\ UNCHANGED <<pc, listed>>
       \/ /\ ~AlreadyDeployed(cr) /\ p \in policies /\ Len(cr.engineName) > 0
          /\ ~listFails
          /\ \/ /\ sched = "error"             \* "unable to fetch OpaEngine"
                /\ deps' = ds0
                /\ last' = Returned(d, "engineGetError", TRUE, {})
             \/ /\ sched = "found"             \* "Policy already deployed"
                /\ deps' = [addCondition(ds0, d, Cond("Available", "True", "PolicyDeployed"))
                               EXCEPT ![d].deployed = TRUE]
                /\ last' = Returned(d, "policyDeployed", FALSE, {})
             \/ /\ sched = "none"              \* requeue after 1s
                /\ deps' = ds0
                /\ last' = Returned(d, "waiting", FALSE, {})
          /\ UNCHANGED <<pc, listed>>
       \/ /\ ~AlreadyDeployed(cr) /\ p \in policies /\ Len(cr.engineName) = 0
          /\ \/ /\ listFails                   \* List failed: logged, falls through
                /\ deps' = ds0
                /\ last' = Returned(d, "listError", FALSE, {})
                /\ UNCHANGED <<pc, listed>>
             \/ /\ ~listFails
                /\ deps' = ds0
                /\ listed' = [listed EXCEPT ![d] = ListEngines(engines)]
                /\ pc' = [pc EXCEPT ![d] = "place"]
                /\ UNCHANGED last
    /\ UNCHANGED <<policies, engines, userOps>>
    /\ UNCHANGED engVars

\* The Get of the Dependency answers with the stored object.
DepReconcile(d, listFails) == DepReconcileFrom(d, deps[d], listFails)

\* Second half of Reconcile(d): the placement, on the Engines as listed.
DepPlace(d) ==
    /\ pc[d] = "place"
    /\ UNCHANGED <<call, cache>>
    /\ LET p == DepPolicy(d)
       IN
       \/ /\ Len(listed[d]) = 0                \* no Engine found: CreateOrUpdate "default"
          /\ engines' = CreateOrUpdateDefault(engines, p)
          /\ deps' = appendEngineName(
                        addCondition(deps, d, Cond("Available", "False", "Scheduled")), d, 0)
          /\ last' = Returned(d, "createdDefault", FALSE, {0})
       \/ /\ Len(listed[d]) = 0                \* "default" was created since the List and
          /\ engines[0].exists                 \* CreateOrUpdate fails: AlreadyExists, Conflict
          /\ UNCHANGED <<engines, deps>>
          /\ last' = Returned(d, "createError", TRUE, {})
       \/ /\ Len(listed[d]) > 0                \* Engine found: add the policy to Items[0]
          /\ LET item == listed[d][1]
                 r == addPolicyToEngine(engines, p, item)
             IN  /\ PartName(item.name) \in EngineIds
                 /\ engines' = r.engines
                 /\ \/ /\ r.err
                       /\ deps' = deps
                       /\ last' = Returned(d, "placeError", TRUE, r.written)
                    \/ /\ ~r.err
                       /\ deps' = appendEngineName(
                                    addCondition(deps, d, Cond("Available", "True", "PolicyScheduled")),
                                    d, item.name)
                       /\ last' = Returned(d, "policyScheduled", FALSE, r.written)
    /\ pc' = [pc EXCEPT ![d] = "idle"]
    /\ listed' = [listed EXCEPT ![d] = <<>>]
    /\ UNCHANGED <<policies, userOps>>
    /\ UNCHANGED engVars

\* ------------------------------------------------------------- the users
\* A user creates the Policy that Dependencies name.
UserCreatePolicy(p) ==
    /\ p \notin policies
    /\ UNCHANGED <<call, cache>>
    /\ policies' = policies \cup {p}
    /\ UNCHANGED <<engines, deps, pc, listed, last, userOps>>
    /\ UNCHANGED <<eng, svc, dpl, loaded>>
    /\ eret' = NoEngineReconcile

\* A user deletes a Policy.
UserDeletePolicy(p) ==
    /\ userOps < MaxUserOps
    /\ UNCHANGED <<call, cache>>
    /\ p \in policies
    /\ policies' = policies \ {p}
    /\ userOps' = userOps + 1
    /\ last' = NoReconcile
    /\ UNCHANGED <<engines, deps, pc, listed>>
    /\ UNCHANGED engVars

\* A user creates the Engine "default" with a Spec.policies of its own.
UserCreateEngine(seed) ==
    /\ userOps < MaxUserOps
    /\ UNCHANGED <<call, cache>>
    /\ ~engines[0].exists
    /\ engines' = [engines EXCEPT ![0] = [exists |-> TRUE, policies |-> seed]]
    /\ userOps' = userOps + 1
    /\ last' = NoReconcile
    /\ UNCHANGED <<policies, deps, pc, listed>>
    /\ UNCHANGED engVars

\* A user deletes an Engine (and the Engine controller finalizes it).
UserDeleteEngine(n) ==
    /\ userOps < MaxUserOps
    /\ UNCHANGED <<call, cache>>
    /\ engines[n].exists
    /\ engines' = [engines EXCEPT ![n] = NoEngine]
    /\ userOps' = userOps + 1
    /\ last' = NoReconcile
    /\ UNCHANGED <<policies, deps, pc, listed>>
    /\ UNCHANGED engVars

\* A user edits Spec.policies of an Engine: adds a name of its own.
UserAddPolicy(n) ==
    /\ userOps < MaxUserOps
    /\ UNCHANGED <<call, cache>>
    /\ engines[n].exists
    /\ ~Contains(engines[n].policies, UserPolicy)
    /\ engines' = [engines EXCEPT ![n].policies = Append(@, UserPolicy)]
    /\ userOps' = userOps + 1
    /\ last' = NoReconcile
    /\ UNCHANGED <<policies, deps, pc, listed>>
    /\ UNCHANGED engVars

NextDep ==
    \/ \E d \in Deps, listFails \in BOOLEAN : DepReconcile(d, listFails)
    \/ \E d \in Deps : DepPlace(d)
    \/ \E p \in DepPolicyNames : UserCreatePolicy(p)
    \/ \E p \in DepPolicyNames : UserDeletePolicy(p)
    \/ \E seed \in Seeds : UserCreateEngine(seed)
    \/ \E n \in EngineIds : UserDeleteEngine(n)
    \/ \E n \in EngineIds : UserAddPolicy(n)

SpecDep == InitDep /\ [][NextDep]_vars


\* The Dependency controller alone: no user creates, deletes or edits an Engine.
NextDepOnly ==
    \/ \E d \in Deps, listFails \in BOOLEAN : DepReconcile(d, listFails)
    \/ \E d \in Deps : DepPlace(d)
    \/ \E p \in DepPolicyNames : UserCreatePolicy(p)

SpecDepOnly == InitDep /\ [][NextDepOnly]_vars

\* The Dependency controller with every call to the cluster API answered;
\* the work queue keeps handing each Dependency to the reconciler, which
\* ends every reconcile it starts.
NextDepFair ==
    \/ \E d \in Deps : DepReconcile(d, FALSE)
    \/ \E d \in Deps : DepPlace(d)
    \/ \E p \in DepPolicyNames : UserCreatePolicy(p)

SpecDepFair ==
    /\ InitDep /\ [][NextDepFair]_vars
    /\ \A d \in Deps : WF_vars(DepReconcile(d, FALSE)) /\ WF_vars(DepPlace(d))

\* The Get of the Dependency is answered from the informer cache of the
\* manager's client, which follows the stored object with a delay; the
\* writes (Status().Update after a Get) go to the stored object.
CacheUpdate(d) ==
    /\ cache[d] # deps[d]
    /\ cache' = [cache EXCEPT ![d] = deps[d]]
    /\ UNCHANGED <<depVars, engVars, call>>

DepReconcileCached(d) ==
    /\ Len(deps[d].engineName) < MaxEngineNames
    /\ DepReconcileFrom(d, cache[d], FALSE)

NextDepCached ==
    \/ \E d \in Deps : DepReconcileCached(d)
    \/ \E d \in Deps : DepPlace(d)
    \/ \E d \in Deps : CacheUpdate(d)
    \/ \E p \in DepPolicyNames : UserCreatePolicy(p)

SpecDepCached == InitDep /\ [][NextDepCached]_vars

\* The Dependency controller and users who create and delete Policies.
NextDepPolicies ==
    \/ \E d \in Deps, listFails \in BOOLEAN : DepReconcile(d, listFails)
    \/ \E d \in Deps : DepPlace(d)
    \/ \E p \in DepPolicyNames : UserCreatePolicy(p)
    \/ \E p \in DepPolicyNames : UserDeletePolicy(p)

SpecDepPolicies == InitDep /\ [][NextDepPolicies]_vars

\* ---------------------------------------------- OpaEngineReconciler.Reconcile
\* One reconcile of the Engine, from the Get to the return; the controller
\* runs the reconciles of one Engine one after the other.  fault names the
\* call to the cluster API that fails, order is the order in which
\* PushPolicies visits its map, nPutOk and nDelOk are the numbers of PUTs and
\* DELETEs after which the transport or the runtime fails.
ToBeAdded == MergePolicies(eng.policies, eng.status)[1]
ToBeRemoved == MergePolicies(eng.policies, eng.status)[2]
\* A deploymentForOpaEngine whose workload is never created.
deploymentNeverCreated(e) ==
    [exists |-> FALSE, replicas |-> 0, availableReplicas |-> 0]

\* deploymentForOpaEngine: the workload of Engine e, none of its replicas
\* available yet
deploymentForOpaEngine(e) ==
    [exists |-> TRUE, replicas |-> IF e.replicas = 0 THEN 1 ELSE e.replicas,
     availableReplicas |-> 0]
\* A reconcile that does not add the finalizer.
AddFinalizerForgotten(e) == e
\* controllerutil.AddFinalizer(engine, OpaEngineFinalizer) and r.Update, on
\* the Engine just read
AddFinalizer(e) == [e EXCEPT !.finalizer = TRUE]
\* An availability test that takes any workload for available.
DeploymentAlwaysAvailable == TRUE

\* foundDeployment.Status.AvailableReplicas == *foundDeployment.Spec.Replicas
DeploymentIsAvailable == dpl.availableReplicas = dpl.replicas
AvailableCondition(available) ==
    IF available THEN Cond("Available", "True", "Available")
                 ELSE Cond("Available", "False", "Unavailable")

Reconcile(fault, order, nPutOk, nDelOk) ==
    LET \* "Check if never reconciled": addCondition writes the stored Engine
        bootstrap == eng.conditions = <<>>
        c0 == IF bootstrap THEN <<Cond("Available", "Unknown", "Reconciling")>>
                           ELSE eng.conditions
        \* "Object not deleted, add finalizer if not present" re-reads engine
        addFinalizer == ~eng.deleting /\ ~eng.finalizer
        fin == Finalize(dpl.exists, svc, fault)
        \* "Check if all conditions are satisfied": addCondition again
        c1 == SetStatusCondition(c0, AvailableCondition(DeploymentIsAvailable))
        \* engine, fetched before a write of addCondition, is out of date
        stale == (bootstrap /\ ~addFinalizer) \/ c1 # c0
        sync == SyncPolicies(eng, loaded, policies, stale, order, nPutOk, nDelOk)
        ret(path, err) == EngineReturned(path, err, eng.status, <<>>, <<>>, <<>>)
    IN
    /\ fault \in Faults
    /\ UNCHANGED <<call, cache>>
    /\ order \in Orders(Range(ToBeAdded))
    /\ nPutOk \in 0..Len(order)
    /\ nDelOk \in 0..Len(ToBeRemoved)
    /\ UNCHANGED depVars
    /\ IF ~eng.exists
       THEN /\ eret' = ret("notFound", FALSE)
            /\ UNCHANGED <<eng, svc, dpl, loaded>>
       ELSE IF bootstrap /\ fault = "addCondition"
       THEN \* "unable to add condition to OpaEngine": requeue, no error
            /\ eret' = ret("addConditionError", FALSE)
            /\ UNCHANGED <<eng, svc, dpl, loaded>>
       ELSE IF eng.deleting
       THEN IF eng.finalizer
            THEN /\ dpl' = IF Contains(fin.deleted, "deployment") THEN NoDeployment ELSE dpl
                 /\ loaded' = IF Contains(fin.deleted, "deployment") THEN {} ELSE loaded
                 /\ svc' = (svc /\ ~Contains(fin.deleted, "service"))
                 \* without its last finalizer the store drops the object
                 /\ eng' = IF fin.finalizerRemoved THEN NoOpaEngine
                           ELSE [eng EXCEPT !.conditions = c0]
                 /\ eret' = EngineReturned(fin.path, ~fin.finalizerRemoved, eng.status,
                                           <<>>, <<>>, fin.deleted)
            ELSE /\ eng' = [eng EXCEPT !.conditions = c0]
                 /\ eret' = ret("deleting", FALSE)
                 /\ UNCHANGED <<svc, dpl, loaded>>
       ELSE IF ~svc /\ fault = "createService"
       THEN \* r.Create(ctx, ser) fails
            /\ eng' = [AddFinalizer(eng) EXCEPT !.conditions = c0]
            /\ eret' = ret("createServiceError", TRUE)
            /\ UNCHANGED <<svc, dpl, loaded>>
       ELSE IF ~dpl.exists /\ fault = "createDeployment"
       THEN \* r.Create(ctx, dep) fails
            /\ eng' = [AddFinalizer(eng) EXCEPT !.conditions = c0]
            /\ svc' = TRUE
            /\ eret' = ret("createDeploymentError", TRUE)
            /\ UNCHANGED <<dpl, loaded>>
       ELSE IF ~dpl.exists
       THEN \* create the service if it is not there, create the workload, requeue
            /\ eng' = [AddFinalizer(eng) EXCEPT !.conditions = c0]
            /\ svc' = TRUE
            /\ dpl' = deploymentForOpaEngine(eng)
            /\ eret' = ret("deploymentCreated", FALSE)
            /\ UNCHANGED loaded
       ELSE IF ~DeploymentIsAvailable
       THEN /\ eng' = [AddFinalizer(eng) EXCEPT !.conditions = c1]
            /\ svc' = TRUE
            /\ eret' = ret("unavailable", FALSE)
            /\ UNCHANGED <<dpl, loaded>>
       ELSE /\ eng' = [AddFinalizer(eng) EXCEPT !.conditions = c1,
                                  !.status = sync.status]
            /\ svc' = TRUE
            /\ loaded' = sync.loaded
            /\ eret' = sync.ret
            /\ UNCHANGED dpl

\* ------------------------------------------ the users and the cluster (Engine)
\* A user creates the Engine.
UserCreateEng(spec) ==
    /\ userOps < MaxUserOps
    /\ UNCHANGED <<call, cache>>
    /\ ~eng.exists
    /\ eng' = [exists |-> TRUE, deleting |-> FALSE, finalizer |-> FALSE,
               replicas |-> DefaultReplicas, policies |-> spec, status |-> <<>>, conditions |-> <<>>]
    /\ userOps' = userOps + 1
    /\ eret' = NoEngineReconcile
    /\ UNCHANGED <<policies, engines, deps, pc, listed, last, svc, dpl, loaded>>

\* A user (or the Dependency controller) writes Spec.policies of the Engine.
UserEditSpec(spec) ==
    /\ userOps < MaxUserOps
    /\ UNCHANGED <<call, cache>>
    /\ eng.exists /\ ~eng.deleting
    /\ spec # eng.policies
    /\ eng' = [eng EXCEPT !.policies = spec]
    /\ userOps' = userOps + 1
    /\ eret' = NoEngineReconcile
    /\ UNCHANGED <<policies, engines, deps, pc, listed, last, svc, dpl, loaded>>

\* A user deletes the Engine: the store sets the deletion timestamp of an
\* object that has a finalizer and drops an object that has none.
UserDeleteEng ==
    /\ userOps < MaxUserOps
    /\ UNCHANGED <<call, cache>>
    /\ eng.exists /\ ~eng.deleting
    /\ eng' = IF eng.finalizer THEN [eng EXCEPT !.deleting = TRUE] ELSE NoOpaEngine
    /\ userOps' = userOps + 1
    /\ eret' = NoEngineReconcile
    /\ UNCHANGED <<policies, engines, deps, pc, listed, last, svc, dpl, loaded>>

\* A user writes Spec.replicas of the Engine.
UserSetReplicas(n) ==
    /\ userOps < MaxUserOps
    /\ UNCHANGED <<call, cache>>
    /\ eng.exists /\ ~eng.deleting
    /\ n \in 1..MaxReplicas /\ n # eng.replicas
    /\ eng' = [eng EXCEPT !.replicas = n]
    /\ userOps' = userOps + 1
    /\ eret' = NoEngineReconcile
    /\ UNCHANGED <<policies, engines, deps, pc, listed, last, svc, dpl, loaded>>

\* The replicas of the workload become available, or some stop being so.
DeploymentAvailable ==
    /\ dpl.exists /\ ~DeploymentIsAvailable
    /\ UNCHANGED <<call, cache>>
    /\ dpl' = [dpl EXCEPT !.availableReplicas = dpl.replicas]
    /\ eret' = NoEngineReconcile
    /\ UNCHANGED <<depVars, eng, svc, loaded>>

DeploymentUnavailable(n) ==
    /\ dpl.exists
    /\ UNCHANGED <<call, cache>>
    /\ n \in 0..(dpl.replicas - 1) /\ n # dpl.availableReplicas
    /\ dpl' = [dpl EXCEPT !.availableReplicas = n]
    /\ eret' = NoEngineReconcile
    /\ UNCHANGED <<depVars, eng, svc, loaded>>

\* A reconcile of the Engine, whatever the cluster and the runtime answer.
EngReconcile ==
    \E fault \in Faults, order \in Orders(Range(ToBeAdded)),
       nPutOk \in 0..Len(ToBeAdded), nDelOk \in 0..Len(ToBeRemoved) :
        Reconcile(fault, order, nPutOk, nDelOk)

InitEng == InitDep

EngEnvironment ==
    \/ \E p \in DepPolicyNames : UserCreatePolicy(p)
    \/ \E spec \in EngineSpecs : UserCreateEng(spec)
    \/ \E spec \in EngineSpecs : UserEditSpec(spec)
    \/ \E n \in 1..MaxReplicas : UserSetReplicas(n)
    \/ UserDeleteEng
    \/ DeploymentAvailable
    \/ \E n \in 0..MaxReplicas : DeploymentUnavailable(n)

NextEng ==
    \/ EngReconcile
    \/ EngEnvironment

SpecEng == InitEng /\ [][NextEng]_vars

\* A reconcile during which no call to the cluster API fails and the runtime
\* answers every request.
EngReconcileOk ==
    \E order \in Orders(Range(ToBeAdded)) :
        Reconcile("none", order, Len(order), Len(ToBeRemoved))

NextEngFair ==
    \/ EngReconcileOk
    \/ EngEnvironment

\* The work queue keeps handing the Engine to the reconciler.
SpecEngFair == InitEng /\ [][NextEngFair]_vars /\ WF_vars(EngReconcileOk)

\* ------------------------------------------------------------------ claims
EngineHolds(n, p) == n \in EngineIds /\ engines[n].exists /\ Contains(engines[n].policies, p)
SomeEngineHolds(p) == \E n \in EngineIds : EngineHolds(n, p)

\* C1: every Dependency with Status.deployed = true has a name in
\* Status.engineName that names an existing Engine whose Spec.policies
\* contains the Dependency's policyName.
C1_DeployedHasEngine ==
    \A d \in Deps :
        deps[d].deployed =>
            \E i \in DOMAIN deps[d].engineName : EngineHolds(deps[d].engineName[i], DepPolicy(d))

\* C2: after a Dependency reconcile that returned without error and set
\* Available=True (PolicyScheduled or PolicyDeployed), the policyName is in
\* Spec.policies of at least one Engine of the namespace.
C2_AvailableIsPlaced ==
    (last.path \in {"policyScheduled", "policyDeployed"} /\ ~last.err)
        => SomeEngineHolds(DepPolicy(last.dep))

\* C3: after a Dependency reconcile that returned without error, no Engine it
\* wrote has more than 7 entries in Spec.policies.
C3_WrittenWithinBudget ==
    (last.path # "none" /\ ~last.err)
        => \A n \in last.written : Len(engines[n].policies) <= MaxPolicies

\* C5: no Engine's Spec.policies contains the same Policy name twice (where
\* only the Dependency controller writes Spec.policies).
C5_NoDuplicatePolicies ==
    \A n \in EngineIds : engines[n].exists => NoDuplicates(engines[n].policies)

\* C6: the placement never blind-overwrites: the names that another writer
\* added to the Engine's Spec.policies between the List and the write of a
\* Dependency reconcile are still in Spec.policies of an Engine after the
\* write, together with the Dependency's policyName.
C6_NoBlindOverwrite ==
    [][\A d \in Deps :
         (pc[d] = "place" /\ pc'[d] = "idle" /\ Len(listed[d]) > 0
            /\ last'.dep = d /\ ~last'.err)
         => LET item == listed[d][1]
            IN  \A x \in (Range(engines[item.name].policies) \ Range(item.policies))
                         \cup {DepPolicy(d)} :
                    \E m \in EngineIds : engines'[m].exists /\ Contains(engines'[m].policies, x)
      ]_vars

\* C4: spill.  When the first listed Engine has exactly 7 entries, no
\* "{name}-part2" exists and a Dependency with a new policyName is reconciled
\* (the Engine is as it was listed), then afterwards "{name}-part2" holds, in
\* order, the last 5 entries of (the list followed by policyName), the Engine
\* itself holds the first 3, and the two lists are disjoint and together hold
\* all 8 names.
SpillCase(d) ==
    /\ pc[d] = "place" /\ pc'[d] = "idle"
    /\ Len(listed[d]) > 0
    /\ Len(listed[d][1].policies) = MaxPolicies
    /\ ~Contains(listed[d][1].policies, DepPolicy(d))
    /\ PartName(listed[d][1].name) \in EngineIds
    /\ ~engines[PartName(listed[d][1].name)].exists
    /\ engines[listed[d][1].name].exists
    /\ engines[listed[d][1].name].policies = listed[d][1].policies
SpillResult(d) ==
    LET item == listed[d][1]
        all  == Append(item.policies, DepPolicy(d))
        part == engines'[PartName(item.name)]
        orig == engines'[item.name]
    IN  /\ part.exists
        /\ part.policies = SubSeq(all, Len(all) - NumToMove + 1, Len(all))
        /\ orig.exists
        /\ orig.policies = SubSeq(all, 1, Len(all) - NumToMove)
        /\ Range(part.policies) \cap Range(orig.policies) = {}
        /\ Range(part.policies) \cup Range(orig.policies) = Range(all)
C4_Spill == [][\A d \in Deps : SpillCase(d) => SpillResult(d)]_vars

\* The spill of a list of 7 different names is as C4 says.
SpillOfDistinctNames ==
    [][\A d \in Deps :
         (SpillCase(d) /\ NoDuplicates(listed[d][1].policies)) => SpillResult(d)]_vars


\* ------------------------------------------------- claims on the Engine loop
\* C7: in every reachable state, every name in the persisted Status.policies
\* of an Engine whose runtime runs is loaded in that runtime (a PUT of it
\* returned 200 and no DELETE of it has returned 200 since).
C7_StatusIsLoaded ==
    (eng.exists /\ dpl.exists) => Range(eng.status) \subseteq loaded

\* C8: after a reconcile in which PushPolicies failed part-way, the persisted
\* Status.policies is the previous Status.policies followed by exactly the
\* names that were PUT with 200 before the failure.
C8_PushFailurePersistsPrefix ==
    eret.path = "pushError" => eng.status = eret.prev \o eret.put

\* C9: an Engine that stays Available, with the Policy objects its
\* Spec.policies names all there, is reconciled again and again until
\* Status.policies and Spec.policies contain the same names.
EngineStable ==
    /\ eng.exists /\ ~eng.deleting
    /\ dpl.exists /\ DeploymentIsAvailable
    /\ Range(eng.policies) \subseteq policies
Converged == Range(eng.status) = Range(eng.policies)
C9_Convergence == []<>(~EngineStable \/ Converged)

\* C10: the finalizer of an Engine with a deletion timestamp is removed only
\* in a reconcile that deleted the child workload and then the child service,
\* and no Engine is removed from the store while a child workload or service
\* is still there.
FinalizerRemovedInOrder ==
    (eng.exists /\ eng.deleting /\ eng.finalizer /\ ~eng'.finalizer)
        => /\ eret'.path = "finalized"
           /\ eret'.deleted = <<"deployment", "service">>
           /\ dpl.exists /\ svc
           /\ ~dpl'.exists /\ ~svc'
NoOrphanChildren == ~eng.exists => (~dpl.exists /\ ~svc)
C10_FinalizedDeletionOrder == [][FinalizerRemovedInOrder]_vars /\ []NoOrphanChildren
\* An Engine that had both children has been finalized and is gone.
C10_Finalized ==
    /\ eret.path = "finalized"
    /\ eret.deleted = <<"deployment", "service">>
    /\ ~eng.exists /\ ~dpl.exists /\ ~svc

\* C11: during finalization a child workload or service that is not there
\* (its Delete answers NotFound) counts as deleted: a reconcile during which
\* no call fails for another reason removes the finalizer and returns no
\* error.
FinalizingWithMissingChild ==
    /\ eng.exists /\ eng.deleting /\ eng.finalizer
    /\ ~dpl.exists \/ ~svc
C11_NotFoundIsSuccess ==
    [][(FinalizingWithMissingChild /\ EngReconcileOk)
          => (~eng'.exists /\ ~eret'.err)]_vars

\* C12: an Engine with a deletion timestamp and the finalizer, whose children
\* are gone (deleted earlier, or never created), is not there any more after
\* a reconcile of it during which no call fails for another reason.
ChildrenGone == ~dpl.exists /\ ~svc
C12_GoneAfterChildren ==
    [][(eng.exists /\ eng.deleting /\ eng.finalizer /\ ChildrenGone /\ EngReconcileOk)
          => ~eng'.exists]_vars

\* C13: in every reachable state an Engine whose Available condition is True
\* has its child workload and its child service.
AvailableIs(status) ==
    \E i \in DOMAIN eng.conditions :
        eng.conditions[i].type = "Available" /\ eng.conditions[i].status = status
C13_AvailableHasChildren ==
    (eng.exists /\ AvailableIs("True")) => (dpl.exists /\ svc)
\* The same of the Engines without a deletion timestamp.
AvailableHasChildrenUnlessDeleting ==
    (eng.exists /\ ~eng.deleting /\ AvailableIs("True")) => (dpl.exists /\ svc)

\* C14: after a reconcile of an Engine that returns no error, an Engine
\* without deletion timestamp has both its children, and an Engine with one
\* has none.
ReturnedNil == eret.path \notin {"none", "notFound"} /\ ~eret.err
C14_ChildrenAfterReconcile ==
    ReturnedNil =>
        IF eret.path \in {"finalized", "deleting"}
        THEN ~dpl.exists /\ ~svc
        ELSE dpl.exists /\ svc

\* C15: after a reconcile that reaches the availability step the Available
\* condition of the Engine is {True, Available} exactly when the
\* availableReplicas of the workload equal Spec.replicas of the Engine, and
\* {False, Unavailable} otherwise.
AvailabilityStepPaths ==
    {"unavailable", "synced", "policyMissing", "pushError", "deleteError", "statusUpdateError"}
C15_AvailableIffReplicas ==
    (eng.exists /\ eret.path \in AvailabilityStepPaths) =>
        \E i \in DOMAIN eng.conditions :
            eng.conditions[i] = AvailableCondition(dpl.availableReplicas = eng.replicas)

\* ------------------------------------------ further claims on the Dependency loop
\* C16: a Dependency that is not deployed and whose Status.engineName names
\* an Engine that is not there any more places its policy again in its next
\* reconcile (or finds it deployed in another Engine it names): the reconcile
\* goes on to the placement.
NamesDeletedEngine(d) ==
    \E i \in DOMAIN deps[d].engineName :
        ~(deps[d].engineName[i] \in EngineIds /\ engines[deps[d].engineName[i]].exists)
C16_ReplacesAfterEngineDeleted ==
    [][\A d \in Deps :
         (/\ ~deps[d].deployed /\ DepPolicy(d) \in policies
          /\ NamesDeletedEngine(d)
          /\ DepReconcile(d, FALSE))
            => (pc'[d] = "place" \/ deps'[d].deployed)]_vars

\* C17: after a reconcile that placed policyName through an existing Engine,
\* the name it appended to Status.engineName is that of an Engine whose
\* Spec.policies holds policyName.
LastEngineName(d) == deps[d].engineName[Len(deps[d].engineName)]
C17_AppendedNameHolds ==
    last.path = "policyScheduled" =>
        EngineHolds(LastEngineName(last.dep), DepPolicy(last.dep))

\* C18: a reconcile of a Dependency whose Policy is not there leaves it with
\* the one condition {Available, False, PolicyNotFound}, creates and changes
\* no Engine, leaves Status.engineName and Status.deployed as they were, and
\* returns no error (requeue after 10s).
PolicyNotFoundCondition == Cond("Available", "False", "PolicyNotFound")
C18_PolicyNotFound ==
    [][\A d \in Deps :
         (DepPolicy(d) \notin policies /\ DepReconcile(d, FALSE))
            => /\ deps'[d].conditions = <<PolicyNotFoundCondition>>
               /\ engines' = engines
               /\ deps'[d].engineName = deps[d].engineName
               /\ deps'[d].deployed = deps[d].deployed
               /\ last' = Returned(d, "policyNotFound", FALSE, {})]_vars
\* C18 as amended: the same of a Dependency that is not deployed (a deployed
\* one returns before the Policy is looked up).
C18_PolicyNotFoundUnlessDeployed ==
    [][\A d \in Deps :
         (DepPolicy(d) \notin policies /\ ~deps[d].deployed /\ DepReconcile(d, FALSE))
            => /\ deps'[d].conditions = <<PolicyNotFoundCondition>>
               /\ engines' = engines
               /\ deps'[d].engineName = deps[d].engineName
               /\ deps'[d].deployed = deps[d].deployed
               /\ last' = Returned(d, "policyNotFound", FALSE, {})]_vars
\* A Dependency has been reconciled without its Policy.
C18_ReconciledWithoutPolicy ==
    /\ last.path = "policyNotFound"
    /\ DepPolicy(last.dep) \notin policies
    /\ deps[last.dep].conditions = <<PolicyNotFoundCondition>>

\* C19: first placement.  The placement of a Dependency whose Policy is
\* there, in a namespace without Engines (none listed, none there when the
\* reconcile writes), creates the Engine "default" with
\* Spec.policies = [policyName], leaves the Dependency with the one condition
\* {Available, False, Scheduled} and with "default" in Status.engineName.
NoEngines == \A n \in EngineIds : ~engines[n].exists
FindsPlacement(d) ==
    \E i \in DOMAIN deps[d].engineName :
        /\ EngineHolds(deps[d].engineName[i], DepPolicy(d))
        /\ \A j \in 1..(i - 1) :
              deps[d].engineName[j] \in EngineIds /\ engines[deps[d].engineName[j]].exists
C20_ConvergesToDeployed ==
    [][\A d \in Deps :
         (/\ ~deps[d].deployed /\ DepPolicy(d) \in policies
          /\ FindsPlacement(d)
          /\ DepReconcile(d, FALSE))
            => /\ deps'[d].conditions = <<Cond("Available", "True", "PolicyDeployed")>>
               /\ deps'[d].deployed
               /\ deps'[d].engineName = deps[d].engineName
               /\ engines' = engines]_vars
\* A Dependency has found its placement and is deployed.
C20_Deployed ==
    /\ last.path = "policyDeployed"
    /\ deps[last.dep].deployed
    /\ deps[last.dep].conditions = <<Cond("Available", "True", "PolicyDeployed")>>
    /\ SomeEngineHolds(DepPolicy(last.dep))

\* ----------------------------------------------------- idempotence, the client
\* C21: idempotence.  A reconcile of the Engine that directly follows one that
\* went through all its steps and returned no error, with no change from
\* outside in between, writes nothing: no cluster object, no status, no PUT
\* or DELETE that changes the runtime.
C21_SecondReconcileWritesNothing ==
    [][(eng.exists /\ eret.path = "synced" /\ ~eret.err /\ EngReconcileOk)
          => UNCHANGED <<eng, svc, dpl, loaded>>]_vars

\* ------------------------------------------------------------ the policy client
\* The names and the sequences of names the client is called with.
ClientNames == DepPolicyNames \cup {UserPolicy}
NameSeqs == UNION {[1..k -> ClientNames] : k \in 0..MaxLen}
\* The calls: MergePolicies on any two lists; PushPolicies on the map that
\* Reconcile fills with the names of toBeAdded (a), whose keys it visits in
\* some order (b); DeletePolicies on any list, whatever the runtime holds.
InitClient ==
    /\ \/ \E a \in NameSeqs, b \in NameSeqs : call = Call("MergePolicies", a, b, {}, 0)
       \/ \E a \in NameSeqs : \E o \in Orders(Range(a)), n \in 0..Len(a) :
              call = Call("PushPolicies", a, o, {}, n)
       \/ \E a \in NameSeqs, ld \in SUBSET ClientNames : \E n \in 0..Len(a) :
              call = Call("DeletePolicies", a, <<>>, ld, n)
    /\ policies = {}
    /\ engines = [n \in EngineIds |-> NoEngine]
    /\ deps = [d \in Deps |-> [conditions |-> <<>>, deployed |-> FALSE, engineName |-> <<>>]]
    /\ pc = [d \in Deps |-> "idle"]
    /\ listed = [d \in Deps |-> <<>>]
    /\ last = NoReconcile
    /\ userOps = 0
    /\ eng = NoOpaEngine
    /\ svc = FALSE
    /\ dpl = NoDeployment
    /\ loaded = {}
    /\ eret = NoEngineReconcile
    /\ cache = [d \in Deps |-> [conditions |-> <<>>, deployed |-> FALSE, engineName |-> <<>>]]

CallMergePolicies ==
    /\ call.fn = "MergePolicies" /\ ~call.done
    /\ call' = [call EXCEPT !.done = TRUE,
                            !.out1 = MergePolicies(call.a, call.b)[1],
                            !.out2 = MergePolicies(call.a, call.b)[2]]
    /\ UNCHANGED <<depVars, engVars, cache>>

CallPushPolicies ==
    /\ call.fn = "PushPolicies" /\ ~call.done
    /\ LET r == PushPolicies(call.b, IF call.n > Len(call.b) THEN Len(call.b) ELSE call.n)
       IN  call' = [call EXCEPT !.done = TRUE, !.out1 = r.added, !.err = r.err,
                                !.ldOut = call.ld \cup Range(r.added)]
    /\ UNCHANGED <<depVars, engVars, cache>>

CallDeletePolicies ==
    /\ call.fn = "DeletePolicies" /\ ~call.done
    /\ LET r == DeletePolicies(call.a, call.ld, call.n)
       IN  call' = [call EXCEPT !.done = TRUE, !.out1 = r.removed, !.err = r.err,
                                !.ldOut = r.loaded]
    /\ UNCHANGED <<depVars, engVars, cache>>

NextClient ==
    \/ CallMergePolicies
    \/ CallPushPolicies
    \/ CallDeletePolicies

SpecClient == InitClient /\ [][NextClient]_vars

\* C22: MergePolicies(expected, actual) returns the entries of expected that
\* do not occur in actual, in the order of expected, and the entries of actual
\* that do not occur in expected, in the order of actual.
EntriesNotIn(s, t) == SelectSeq(s, LAMBDA x : \A i \in DOMAIN t : t[i] # x)
C22_MergeIsDifference ==
    (call.fn = "MergePolicies" /\ call.done) =>
        /\ call.out1 = EntriesNotIn(call.a, call.b)
        /\ call.out2 = EntriesNotIn(call.b, call.a)
\* MergePolicies has been called with names to add, to remove and to keep.
C22_MergedBothWays ==
    /\ call.fn = "MergePolicies" /\ call.done
    /\ call.out1 # <<>> /\ call.out2 # <<>>
    /\ Len(call.out1) < Len(call.a)

\* C23: for every sequence a, MergePolicies(a, a) = ([], []),
\* MergePolicies(a, []) = (a, []) and MergePolicies([], a) = ([], a).
C23_MergeIdentities ==
    (call.fn = "MergePolicies" /\ call.done) =>
        /\ call.a = call.b => (call.out1 = <<>> /\ call.out2 = <<>>)
        /\ call.b = <<>> => (call.out1 = call.a /\ call.out2 = <<>>)
        /\ call.a = <<>> => (call.out1 = <<>> /\ call.out2 = call.b)
\* MergePolicies has been called with twice the same sequence, of some length.
C23_MergedWithItself ==
    /\ call.fn = "MergePolicies" /\ call.done
    /\ call.a = call.b /\ Len(call.a) = MaxLen

\* C24: PushPolicies PUTs the names in the order of the caller's toAdd
\* sequence and returns the names that got 200, a prefix of that sequence
\* (all of it when nothing fails).
IsPrefix(s, t) == Len(s) <= Len(t) /\ s = SubSeq(t, 1, Len(s))
C24_PushReturnsPrefix ==
    (call.fn = "PushPolicies" /\ call.done) =>
        /\ IsPrefix(call.out1, call.a)
        /\ ~call.err => call.out1 = call.a

\* C25: DeletePolicies DELETEs the names in the order given, stops at the
\* first answer that is not 200 without a further DELETE, and returns the
\* names deleted so far, a prefix of the names, with an error; when nothing
\* fails it returns all the names.
\* The first request that is not answered with 200: the transport or the
\* runtime fails after n answers, or the runtime does not hold the name (any
\* more).
FirstFailure(names, ld, n) ==
    LET failing == {i \in DOMAIN names :
                      \/ i > n
                      \/ names[i] \notin ld
                      \/ \E j \in 1..(i - 1) : names[j] = names[i]}
    IN  IF failing = {} THEN Len(names) + 1
        ELSE CHOOSE i \in failing : \A j \in failing : i <= j
C25_DeleteReturnsPrefix ==
    (call.fn = "DeletePolicies" /\ call.done) =>
        LET deleted == SubSeq(call.a, 1, FirstFailure(call.a, call.ld, call.n) - 1)
        IN  /\ call.out1 = deleted
            /\ call.err = (Len(deleted) < Len(call.a))
            /\ call.ldOut = call.ld \ Range(deleted)
\* DeletePolicies has stopped after some names, with a loaded name left.
C25_DeleteStoppedHalfway ==
    /\ call.fn = "DeletePolicies" /\ call.done /\ call.err
    /\ call.out1 # <<>>
    /\ \E i \in DOMAIN call.a : call.a[i] \in call.ldOut

\* The drift: an Engine with Available=True and an available workload whose
\* Status.policies lacks names of Spec.policies (and has no other name), the
\* Policy objects of the missing names being there.
MissingNames == Range(eng.policies) \ Range(eng.status)
DriftCase ==
    /\ eng.exists /\ ~eng.deleting /\ AvailableIs("True")
    /\ dpl.exists /\ DeploymentIsAvailable
    /\ MissingNames # {} /\ Range(eng.status) \subseteq Range(eng.policies)
    /\ MissingNames \subseteq policies
\* C26: drift healing.  A reconcile of an Engine in the drift (a step that
\* leaves a path in eret is a reconcile) PUTs only missing names and, when
\* every PUT answers 200, PUTs each missing name once, returns no error and
\* persists a Status.policies with the same names as Spec.policies.
C26_DriftHealed ==
    [][(DriftCase /\ eret'.path # "none")
         => /\ Range(eret'.put) \subseteq MissingNames
            /\ eret'.path # "pushError"
                 => /\ Range(eret'.put) = MissingNames
                    /\ Len(eret'.put) = Cardinality(MissingNames)
                    /\ ~eret'.err
                    /\ Range(eng'.status) = Range(eng.policies)]_vars
\* A reconcile restored a Status.policies that had names and lacked some.
C26_StatusRestored ==
    /\ eng.exists /\ AvailableIs("True") /\ eret.path = "synced"
    /\ eret.prev # <<>> /\ eret.put # <<>>
    /\ Range(eret.prev) \subseteq Range(eng.policies)
    /\ Range(eng.status) = Range(eng.policies)
    /\ Len(eng.status) = Len(eret.prev) + Len(eret.put)

\* C27: a reconcile that returns without error of an Engine that has no
\* deletion timestamp leaves the Engine with the finalizer, and leaves the
\* Engine's spec and deletion timestamp as they were.
C27_FinalizerAfterReconcile ==
    [][(eng.exists /\ ~eng.deleting /\ EngReconcile /\ ~eret'.err)
         => /\ eng'.exists /\ eng'.finalizer
            /\ eng'.policies = eng.policies
            /\ eng'.replicas = eng.replicas
            /\ eng'.deleting = eng.deleting]_vars

\* C28: after a reconcile in which the Create of the child service, or of the
\* child workload, returned an error, the Engine has a Degraded=True
\* condition, with reason ServiceError for the service and DeploymentError
\* for the workload.
C28_DegradedOnCreateError ==
    /\ (eng.exists /\ eret.path = "createServiceError")
          => \E i \in DOMAIN eng.conditions :
                 eng.conditions[i] = Cond("Degraded", "True", "ServiceError")
    /\ (eng.exists /\ eret.path = "createDeploymentError")
          => \E i \in DOMAIN eng.conditions :
                 eng.conditions[i] = Cond("Degraded", "True", "DeploymentError")

\* The returns of the Dependency reconcile whose Result has a RequeueAfter.
RequeueAfterPaths ==
    {"policyNotFound", "engineGetError", "waiting", "createError", "placeError"}

\* C29: a Dependency reconcile in which a call to the cluster API failed
\* (the Get of a named Engine, the List of the Engines, a write of the
\* placement) returns the error or a requeue; it does not return plain
\* success with the placement not done.
ApiFailurePaths == {"engineGetError", "listError", "createError", "placeError"}
C29_ApiFailureIsRetried ==
    last.path \in ApiFailurePaths
        => (last.err \/ last.path \in RequeueAfterPaths)

\* C30: a reconcile of a Dependency that is not deployed, whose
\* Status.engineName is not empty and names only existing Engines none of
\* which has policyName in Spec.policies, goes on to the placement: it lists
\* the Engines of the namespace.
NamedEnginesLackPolicy(d) ==
    /\ Len(deps[d].engineName) > 0
    /\ \A i \in DOMAIN deps[d].engineName :
          /\ deps[d].engineName[i] \in EngineIds
          /\ engines[deps[d].engineName[i]].exists
          /\ ~EngineHolds(deps[d].engineName[i], DepPolicy(d))
C30_PlacesWhenNoNamedEngineHolds ==
    [][\A d \in Deps :
         (/\ ~deps[d].deployed /\ DepPolicy(d) \in policies
          /\ NamedEnginesLackPolicy(d)
          /\ DepReconcile(d, FALSE))
            => (pc'[d] = "place" /\ listed'[d] = ListEngines(engines))]_vars

C32_DeployedWritesNothing ==
    [][\A d \in Deps :
         (deps[d].deployed /\ Len(deps[d].conditions) > 0
            /\ \E listFails \in BOOLEAN : DepReconcile(d, listFails))
         => (UNCHANGED <<deps, engines, policies>> /\ pc'[d] = "idle")]_vars
\* A deployed Dependency was reconciled after its Policy was deleted.
C32_DeployedReconciledAfterLoss ==
    /\ last.path = "alreadyDeployed"
    /\ deps[last.dep].deployed /\ Len(deps[last.dep].conditions) > 0
    /\ DepPolicy(last.dep) \notin policies

\* C33: policy sync happens only when the Engine is available.  A reconcile
\* of an Engine whose workload has availableReplicas other than replicas, or
\* whose workload is not there yet (it is created in this reconcile), or that
\* has a deletion timestamp, sends no PUT and no DELETE to the runtime and
\* leaves Status.policies as it was.
NoSyncCase ==
    /\ eng.exists
    /\ \/ eng.deleting
       \/ ~dpl.exists
       \/ dpl.availableReplicas # dpl.replicas
C33_SyncOnlyWhenAvailable ==
    [][(NoSyncCase /\ eret'.path # "none")
         => /\ eret'.put = <<>> /\ eret'.del = <<>>
            /\ loaded' \subseteq loaded
            /\ dpl'.exists /\ dpl.exists => loaded' = loaded
            /\ eng'.exists => eng'.status = eng.status]_vars
\* A reconcile found the workload unavailable while names of Spec.policies,
\* whose Policy objects are there, were not in Status.policies.
C33_UnavailableWithPending ==
    /\ eng.exists /\ eret.path = "unavailable"
    /\ dpl.exists /\ dpl.availableReplicas # dpl.replicas
    /\ ToBeAdded # <<>> /\ Range(ToBeAdded) \subseteq policies
    /\ eng.status # <<>>

\* The split contention: the Engine listed first had, with policyName, more
\* than 7 entries, "{name}-part2" is there already and the Engine itself
\* still is.
ContentionCase(d) ==
    /\ pc[d] = "place" /\ Len(listed[d]) > 0
    /\ Len(listed[d][1].policies) + 1 > MaxPolicies
    /\ PartName(listed[d][1].name) \in EngineIds
    /\ engines[PartName(listed[d][1].name)].exists
    /\ engines[listed[d][1].name].exists
\* the would-be list without its last five
KeepSet(d) ==
    LET updated == Append(listed[d][1].policies, DepPolicy(d))
    IN  Range(SubSeq(updated, 1, Len(updated) - NumToMove))
\* C34: split contention.  In the contention the placement returns without
\* error, sets Spec.policies of the original Engine to the entries of its
\* current (re-read) list that are in the keep set, in their current order,
\* and leaves "{name}-part2" and every other Engine as they were.
C34_SplitContention ==
    [][\A d \in Deps :
         (ContentionCase(d) /\ DepPlace(d))
         => LET orig == listed[d][1].name
            IN  /\ ~last'.err /\ last'.dep = d
                /\ engines'[orig].exists
                /\ engines'[orig].policies =
                      SelectSeq(engines[orig].policies, LAMBDA x : x \in KeepSet(d))
                /\ \A n \in EngineIds \ {orig} : engines'[n] = engines[n]]_vars
\* A placement went through the contention: it returned no error, the
\* original Engine and "{name}-part2" are there and policyName is in neither.
C34_ContentionPlacedNothing ==
    /\ last.path = "policyScheduled" /\ ~last.err
    /\ last.written = {0}
    /\ engines[0].exists /\ engines[PartName(0)].exists
    /\ Len(engines[0].policies) > 0
    /\ ~SomeEngineHolds(DepPolicy(last.dep))

\* C35: no placed policy is lost.  A policy name that a Dependency placement
\* put in the Spec.policies of an Engine (a Dependency of that name has a
\* Status.engineName, and an Engine holds the name) is still in the
\* Spec.policies of some Engine after every step of the Dependency
\* controller.
Placed(p) ==
    /\ SomeEngineHolds(p)
    /\ \E d \in Deps : DepPolicy(d) = p /\ Len(deps[d].engineName) > 0
DepControllerStep ==
    \E d \in Deps : DepPlace(d) \/ \E listFails \in BOOLEAN : DepReconcile(d, listFails)
C35_NoPlacedPolicyLost ==
    [][\A p \in DepPolicyNames :
         (Placed(p) /\ DepControllerStep)
            => \E n \in EngineIds : engines'[n].exists /\ Contains(engines'[n].policies, p)]_vars

\* C36: liveness of placement.  With fairly scheduled reconciles and no
\* Engine touched by anyone else, every Dependency whose Policy exists
\* eventually has Status.deployed = true.
C36_EventuallyDeployed ==
    \A d \in Deps : (DepPolicy(d) \in policies) ~> deps[d].deployed

\* C37: concurrent first placement.  When two Dependencies with different
\* policyNames, the only ones reconciled so far, have both been placed (each
\* through the creation of "default" after a List that found no Engine, or
\* through the Engine the other created) and no reconcile of theirs is under
\* way, "default" is the only Engine and its Spec.policies holds the two
\* names, each once; it stays so when they go on to deployed.
Untouched(d) ==
    /\ pc[d] = "idle"
    /\ deps[d] = [conditions |-> <<>>, deployed |-> FALSE, engineName |-> <<>>]
PlacedOrDeployed(d) ==
    /\ pc[d] = "idle"
    /\ \E r \in {"Scheduled", "PolicyScheduled", "PolicyDeployed"} :
          \E s \in {"True", "False"} : deps[d].conditions = <<Cond("Available", s, r)>>
C37_ConcurrentFirstPlacement ==
    \A d1, d2 \in Deps :
        (/\ DepPolicy(d1) # DepPolicy(d2)
         /\ \A d \in Deps \ {d1, d2} : Untouched(d)
         /\ PlacedOrDeployed(d1) /\ PlacedOrDeployed(d2))
        => /\ engines[0].exists
           /\ \A n \in EngineIds \ {0} : ~engines[n].exists
           /\ engines[0].policies \in {<<DepPolicy(d1), DepPolicy(d2)>>,
                                       <<DepPolicy(d2), DepPolicy(d1)>>}
\* Two Dependencies whose Lists both found no Engine have both gone through
\* the creation of "default", which holds the two names.
C37_BothCreatedDefault ==
    \E d1, d2 \in Deps :
        /\ DepPolicy(d1) # DepPolicy(d2)
        /\ deps[d1].conditions = <<Cond("Available", "False", "Scheduled")>>
        /\ deps[d2].conditions = <<Cond("Available", "False", "Scheduled")>>
        /\ pc[d1] = "idle" /\ pc[d2] = "idle"
        /\ Len(engines[0].policies) = 2

\* C38: a reconcile of an available Engine in which some name to be added
\* has no Policy object returns an error before any PUT or DELETE is sent
\* and leaves Status.policies as it was, also when names are waiting to be
\* removed.
MissingPolicyCase ==
    /\ eng.exists /\ ~eng.deleting
    /\ dpl.exists /\ DeploymentIsAvailable
    /\ ~(Range(ToBeAdded) \subseteq policies)
C38_MissingPolicyBlocksSync ==
    [][(MissingPolicyCase /\ eret'.path # "none")
         => /\ eret'.err /\ eret'.path = "policyMissing"
            /\ eret'.put = <<>> /\ eret'.del = <<>>
            /\ loaded' = loaded
            /\ eng'.status = eng.status]_vars
\* A reconcile ended on the missing Policy while a name, loaded in the
\* runtime, was waiting to be removed.
C38_RemovalBlocked ==
    /\ eng.exists /\ eret.path = "policyMissing"
    /\ ToBeRemoved # <<>> /\ Range(ToBeRemoved) \subseteq loaded
    /\ eret.put = <<>> /\ eret.del = <<>>

\* C39: the child workload and the child service exist only for an Engine
\* that carries the finalizer or is being deleted (only the controller
\* creates children).
C39_ChildrenOnlyWithFinalizer ==
    (svc \/ dpl.exists) => (eng.exists /\ (eng.finalizer \/ eng.deleting))
\* The Engine has its two children and the finalizer.
C39_ChildrenOfFinalizedEngine ==
    /\ eng.exists /\ ~eng.deleting /\ eng.finalizer
    /\ svc /\ dpl.exists
    /\ eret.path = "deploymentCreated"

\* C40: Status.engineName of a Dependency has at most one entry, also when
\* its reconcile is repeated and when the reconcile reads a stale copy of
\* the Dependency.
C40_AtMostOneEngineName ==
    \A d \in Deps : Len(deps[d].engineName) <= 1

=========================================================================
